---- MODULE Spec2Model ----
(***************************************************************************)
(* Model of the hakka-bot chatflow engine (src/chat.py) and of the webhook *)
(* event handler that drives it (src/app/main.py).                         *)
(*                                                                         *)
(* Strings of the program are TLA+ strings.  A text handed to a node's     *)
(* transition is given as the sequence of its '&'-separated fields, each   *)
(* field [k, eq, v] being the text before the first '=', whether there is  *)
(* a '=', and the text after it.  Python objects with identity (the        *)
(* Counter shared by the nodes of one traversal) live in a heap variable.  *)
(***************************************************************************)
EXTENDS Integers, Sequences, FiniteSets, TLC

VARIABLES raw, phase, makers, loadError, chatflow, tallies, hist, last,
          tasks, sent, applied

vars == <<raw, phase, makers, loadError, chatflow, tallies, hist, last,
          tasks, sent, applied>>

-----------------------------------------------------------------------------
(* Bounds of the model *)

\* greatest number of answers one tally may hold (caps graphs with a cycle)
MaxCount == 4

\* greatest number of options of a template message
MaxOptions == 28

-----------------------------------------------------------------------------
(* Literals of the program *)

UNKNOWN_ERROR == "UNKNOWN_ERROR"
QUESTION_MISMATCH == "QUESTION_MISMATCH"
WRONG_ANSWER == "WRONG_ANSWER"
DUPLICATE_ANSWER == "DUPLICATE_ANSWER"

\* a key, field or value that is missing or not a string
Absent == "<absent>"
\* Python's None (an event without user id or reply token)
None == "<None>"
NoError == "<no error>"

\* ord() of the characters that occur in the inputs
Ord == [c \in {"@", "A", "B", "C"} |->
          CASE c = "@" -> 64 [] c = "A" -> 65 [] c = "B" -> 66 [] c = "C" -> 67]

-----------------------------------------------------------------------------
(* Raw configuration documents (the value yaml.safe_load returns) *)

RawText(s) == [type |-> "text", data |-> s]

\* the i-th option text of a template message
Option(i) == << "opt", i >>

\* a template message with n options
RawTemplate(id, label, n) ==
    [type |-> "template",
     data |-> [id |-> id, label |-> label, title |-> "title",
               options |-> [i \in 1 .. n |-> Option(i)], fg |-> "fg", bg |-> "bg"]]

RawAct(t, d, l, a, rs) ==
    [type |-> t, dest |-> d, label |-> l, answer |-> a, hasResults |-> TRUE, results |-> rs]

RawNode(ms, act) == [hasKeys |-> TRUE, messages |-> ms, action |-> act]

Entry(k, n) == [key |-> k, keyIsStr |-> TRUE, node |-> n]

Bundle(n) == [original |-> n, preview |-> n, text |-> n]

Results2 == << Bundle("r0"), Bundle("r1") >>

\* Begin -> S1 -> S2 -> S3 -> S4 -> End -> Begin: four stores of one label
G_Quiz ==
    [isDict |-> TRUE, items |-> <<
        Entry("Begin", RawNode(<<RawText("hello")>>, RawAct("default", "S1", Absent, Absent, <<>>))),
        Entry("S1", RawNode(<<RawText("s1?")>>, RawAct("store", "S2", "S", Absent, <<>>))),
        Entry("S2", RawNode(<<RawText("s2?")>>, RawAct("store", "S3", "S", Absent, <<>>))),
        Entry("S3", RawNode(<<RawText("s3?")>>, RawAct("store", "S4", "S", Absent, <<>>))),
        Entry("S4", RawNode(<<RawText("s4?")>>, RawAct("store", "End", "S", Absent, <<>>))),
        Entry("End", RawNode(<<>>, RawAct("end", "Begin", Absent, Absent, Results2)))
    >>]

\* Begin -> End -> Begin: an End node reached with nothing stored
G_Short ==
    [isDict |-> TRUE, items |-> <<
        Entry("Begin", RawNode(<<RawText("hello")>>, RawAct("default", "End", Absent, Absent, <<>>))),
        Entry("End", RawNode(<<>>, RawAct("end", "Begin", Absent, Absent, Results2)))
    >>]

\* Begin -> L1 -> Q1 -> Begin: a cycle without End, in which the Store node
\* L1 and the QA node Q1 are reached again and again within one traversal
G_Loop ==
    [isDict |-> TRUE, items |-> <<
        Entry("Begin", RawNode(<<RawText("hello")>>, RawAct("default", "L1", Absent, Absent, <<>>))),
        Entry("L1", RawNode(<<RawText("l1?")>>, RawAct("store", "Q1", "L", Absent, <<>>))),
        Entry("Q1", RawNode(<<RawText("q1?")>>, RawAct("qa", "Begin", "Q", "B", <<>>)))
    >>]

\* Begin -> K1 -> End -> Begin: one Store node before End, whose label no
\* other document uses, so that the tally holds the one answer it accepted
G_Keys ==
    [isDict |-> TRUE, items |-> <<
        Entry("Begin", RawNode(<<RawText("hello")>>, RawAct("default", "K1", Absent, Absent, <<>>))),
        Entry("K1", RawNode(<<RawText("k1?")>>, RawAct("store", "End", "K", Absent, <<>>))),
        Entry("End", RawNode(<<>>, RawAct("end", "Begin", Absent, Absent, Results2)))
    >>]

\* Begin -> Begin, with one template message
G_Template(id, label, n) ==
    [isDict |-> TRUE, items |-> <<
        Entry("Begin", RawNode(<<RawTemplate(id, label, n)>>,
                               RawAct("default", "Begin", Absent, Absent, <<>>)))
    >>]

\* template 1, template 2 and an id that is no template, for every number
\* of options
TemplateConfigs ==
    {G_Template(id, label, n) : id \in 1 .. 3, label \in {"S", "Q"}, n \in 0 .. MaxOptions}

\* documents whose dest names all resolve
GoodConfigs == {G_Quiz, G_Short, G_Loop, G_Keys}

\* dest names that are no key of the document, for each node kind
G_DanglingDefault ==
    [isDict |-> TRUE, items |-> <<
        Entry("Begin", RawNode(<<RawText("hello")>>, RawAct("default", "Nowhere", Absent, Absent, <<>>)))
    >>]

G_DanglingStore ==
    [isDict |-> TRUE, items |-> <<
        Entry("Begin", RawNode(<<RawText("hello")>>, RawAct("default", "S1", Absent, Absent, <<>>))),
        Entry("S1", RawNode(<<RawText("s1?")>>, RawAct("store", "Nowhere", "L", Absent, <<>>)))
    >>]

G_DanglingQA ==
    [isDict |-> TRUE, items |-> <<
        Entry("Begin", RawNode(<<RawText("hello")>>, RawAct("default", "Q1", Absent, Absent, <<>>))),
        Entry("Q1", RawNode(<<RawText("q1?")>>, RawAct("qa", "Nowhere", "Q", "B", <<>>)))
    >>]

G_DanglingEnd ==
    [isDict |-> TRUE, items |-> <<
        Entry("Begin", RawNode(<<RawText("hello")>>, RawAct("default", "S1", Absent, Absent, <<>>))),
        Entry("S1", RawNode(<<RawText("s1?")>>, RawAct("store", "End", "S", Absent, <<>>))),
        Entry("End", RawNode(<<>>, RawAct("end", "Nowhere", Absent, Absent, Results2)))
    >>]

DanglingConfigs == {G_DanglingDefault, G_DanglingStore, G_DanglingQA, G_DanglingEnd}

\* malformed documents
G_NotDict == [isDict |-> FALSE, items |-> <<>>]

G_NoAction ==
    [isDict |-> TRUE, items |-> <<
        Entry("Begin", [hasKeys |-> FALSE, messages |-> <<>>,
                        action |-> RawAct(Absent, Absent, Absent, Absent, <<>>)])
    >>]

G_BadMessage ==
    [isDict |-> TRUE, items |-> <<
        Entry("Begin", RawNode(<<[type |-> Absent, data |-> "x"]>>,
                               RawAct("default", "Begin", Absent, Absent, <<>>)))
    >>]

G_BadActionType ==
    [isDict |-> TRUE, items |-> <<
        Entry("Begin", RawNode(<<RawText("hello")>>, RawAct("jump", "Begin", Absent, Absent, <<>>)))
    >>]

G_BadResult ==
    [isDict |-> TRUE, items |-> <<
        Entry("Begin", RawNode(<<RawText("hello")>>, RawAct("default", "End", Absent, Absent, <<>>))),
        Entry("End", RawNode(<<>>, RawAct("end", "Begin", Absent, Absent,
                     << [original |-> "r0", preview |-> Absent, text |-> "r0"] >>)))
    >>]

\* two malformed nodes: an unknown action type, then a node without action
G_TwoBad ==
    [isDict |-> TRUE, items |-> <<
        Entry("Begin", RawNode(<<RawText("hello")>>, RawAct("jump", "Next", Absent, Absent, <<>>))),
        Entry("Next", [hasKeys |-> FALSE, messages |-> <<>>,
                       action |-> RawAct(Absent, Absent, Absent, Absent, <<>>)])
    >>]

\* two malformed nodes: an end result without preview, then a message
\* without a string type
G_TwoBadResult ==
    [isDict |-> TRUE, items |-> <<
        Entry("End", RawNode(<<>>, RawAct("end", "Begin", Absent, Absent,
                     << [original |-> "r0", preview |-> Absent, text |-> "r0"] >>))),
        Entry("Begin", RawNode(<<[type |-> Absent, data |-> "x"]>>,
                               RawAct("default", "End", Absent, Absent, <<>>)))
    >>]

MalformedConfigs ==
    {G_NotDict, G_NoAction, G_BadMessage, G_BadActionType, G_BadResult,
     G_TwoBad, G_TwoBadResult}

LoaderConfigs == {G_Short} \cup DanglingConfigs \cup MalformedConfigs

-----------------------------------------------------------------------------
(* Loading: validate_chatflow, parse_chatflow (chat.py) *)

\* the smallest element of a non-empty set of integers
Least(S) == CHOOSE i \in S : \A j \in S : i <= j

\* the check validate_chatflow makes on one item of the mapping
ValidateEntry(e) ==
    IF ~e.keyIsStr THEN "ValueError: key must be a str"
    ELSE IF ~e.node.hasKeys THEN "ValueError: must have 'messages' and 'action' keys"
    ELSE IF \E i \in DOMAIN e.node.messages : e.node.messages[i].type = Absent
         THEN "ValueError: invalid message"
    ELSE IF e.node.action.type = Absent THEN "ValueError: invalid action"
    ELSE NoError

\* validate_chatflow: the error of the first item that violates a check
validate_chatflow(doc) ==
    IF ~doc.isDict THEN [err |-> "ValueError: input object must be a dict", at |-> 0]
    ELSE LET bad == {i \in DOMAIN doc.items : ValidateEntry(doc.items[i]) # NoError}
         IN  IF bad = {} THEN [err |-> NoError, at |-> 0]
             ELSE [err |-> ValidateEntry(doc.items[Least(bad)]), at |-> Least(bad)]

\* a message maker: partial(make_text_message, data)
TextMaker(s) == [fn |-> "text", arg |-> s]

\* a message maker: partial(make_flex_message, data)
FlexMaker(contents) == [fn |-> "flex", arg |-> contents]

\* string.ascii_uppercase
ascii_uppercase ==
    << "A", "B", "C", "D", "E", "F", "G", "H", "I", "J", "K", "L", "M",
       "N", "O", "P", "Q", "R", "S", "T", "U", "V", "W", "X", "Y", "Z" >>

\* a zip that goes on to the end of the longer sequence
RECURSIVE zip_longest(_, _)
zip_longest(xs, ys) ==
    IF xs = <<>> /\ ys = <<>> THEN <<>>
    ELSE << << IF xs = <<>> THEN "" ELSE Head(xs), IF ys = <<>> THEN "" ELSE Head(ys) >> >>
         \o zip_longest(IF xs = <<>> THEN xs ELSE Tail(xs),
                        IF ys = <<>> THEN ys ELSE Tail(ys))

\* zip(xs, ys): pairs, until one of the two is exhausted
RECURSIVE zip(_, _)
zip(xs, ys) ==
    IF xs = <<>> \/ ys = <<>> THEN <<>>
    ELSE << << Head(xs), Head(ys) >> >> \o zip(Tail(xs), Tail(ys))

Separator(fg) == [type |-> "separator", color |-> fg]

\* the postback button of a template; data is f"q={label}&a={a}", and the
\* display text is the text shown between a fixed prefix and suffix
Button(label, a, shown, fg) ==
    [type |-> "button", color |-> fg,
     action |-> [type |-> "postback", data |-> << "q=", label, "&a=", a >>,
                 displayText |-> << "prefix", shown, "suffix" >>, label |-> shown]]

\* make_contents_from_template_1: one bubble, a button for each pair of
\* zip(options, string.ascii_uppercase) between two separators
make_contents_from_template_1(label, title, options, fg, bg) ==
    LET pairs == zip(options, ascii_uppercase)
    IN  [type |-> "bubble", title |-> title, bg |-> bg,
         footer |-> << Separator(fg) >>
                    \o [i \in DOMAIN pairs |-> Button(label, pairs[i][2], pairs[i][1], fg)]
                    \o << Separator(fg) >>]

\* make_contents_from_template_2: a carousel, a bubble for the title and
\* one for each pair of zip(options, string.ascii_uppercase)
make_contents_from_template_2(label, title, options, fg, bg) ==
    LET pairs == zip(options, ascii_uppercase)
    IN  [type |-> "carousel",
         contents |-> << [type |-> "bubble", text |-> title, bg |-> bg] >>
                      \o [i \in DOMAIN pairs |->
                            [type |-> "bubble", text |-> pairs[i][1], bg |-> bg,
                             footer |-> << Separator(fg),
                                           Button(label, pairs[i][2], pairs[i][2], fg) >>]]]

\* parse_message, for the text and template messages of the documents
parse_message(m) ==
    IF m.type = "text"
    THEN IF m.data # Absent THEN [err |-> NoError, maker |-> TextMaker(m.data)]
         ELSE [err |-> "ValueError: invalid message type", maker |-> TextMaker("")]
    ELSE IF m.type = "template"
    THEN LET d == m.data
         IN  IF d.id = 1
             THEN [err |-> NoError, maker |->
                     FlexMaker(make_contents_from_template_1(d.label, d.title, d.options,
                                                             d.fg, d.bg))]
             ELSE IF d.id = 2
             THEN [err |-> NoError, maker |->
                     FlexMaker(make_contents_from_template_2(d.label, d.title, d.options,
                                                             d.fg, d.bg))]
             ELSE [err |-> "ValueError: invalid template id", maker |-> TextMaker("")]
    ELSE [err |-> "ValueError: invalid message type", maker |-> TextMaker("")]

validate_result(r) == r.original # Absent /\ r.preview # Absent /\ r.text # Absent

\* a node factory: partial(ChatDefault | ChatQA | ChatStore | ChatEnd, ...)
Maker(cls, dest, msgs, label, answer, data) ==
    [cls |-> cls, dest |-> dest, messages |-> msgs, label |-> label,
     answer |-> answer, data |-> data]

NoMaker == Maker("None", "", <<>>, "", "", <<>>)

parse_chat(n) ==
    LET parsed == [i \in DOMAIN n.messages |-> parse_message(n.messages[i])]
        msgs == [i \in DOMAIN n.messages |-> parsed[i].maker]
        a == n.action
        invalid == [err |-> "ValueError: invalid action type", maker |-> NoMaker]
    IN  IF \E i \in DOMAIN parsed : parsed[i].err # NoError
        THEN [err |-> parsed[Least({i \in DOMAIN parsed : parsed[i].err # NoError})].err,
              maker |-> NoMaker]
        ELSE CASE a.type = "default" /\ a.dest # Absent ->
                    [err |-> NoError, maker |-> Maker("Default", a.dest, msgs, "", "", <<>>)]
               [] a.type = "qa" /\ a.dest # Absent /\ a.label # Absent /\ a.answer # Absent ->
                    [err |-> NoError, maker |-> Maker("QA", a.dest, msgs, a.label, a.answer, <<>>)]
               [] a.type = "store" /\ a.dest # Absent /\ a.label # Absent ->
                    [err |-> NoError, maker |-> Maker("Store", a.dest, msgs, a.label, "", <<>>)]
               [] a.type = "end" /\ a.dest # Absent /\ a.hasResults
                  /\ \A i \in DOMAIN a.results : validate_result(a.results[i]) ->
                    [err |-> NoError, maker |-> Maker("End", a.dest, msgs, "", "", a.results)]
               [] OTHER -> invalid

\* parse_chatflow: the dict comprehension, raising at the first item that fails
parse_chatflow(doc) ==
    LET items == doc.items
        bad == {i \in DOMAIN items : parse_chat(items[i].node).err # NoError}
        keys == {items[i].key : i \in DOMAIN items}
        lastOf(k) == CHOOSE i \in DOMAIN items :
                        /\ items[i].key = k
                        /\ \A j \in DOMAIN items : items[j].key = k => j <= i
    IN  IF bad # {}
        THEN [err |-> parse_chat(items[Least(bad)].node).err, at |-> Least(bad),
              makers |-> <<>>]
        ELSE [err |-> NoError, at |-> 0,
              makers |-> [k \in keys |-> parse_chat(items[lastOf(k)].node).maker]]

\* load_chatflow: validate the whole document, then compile it
load_chatflow(doc) ==
    LET v == validate_chatflow(doc)
    IN  IF v.err # NoError THEN [err |-> v.err, at |-> v.at, makers |-> <<>>]
        ELSE parse_chatflow(doc)

-----------------------------------------------------------------------------
(* Messages *)

\* the base URL of the request, the context of get_messages
URL == "https://host/"

\* make_text_message(text): the TextMessage of a text
make_text_message(text) == [type |-> "text", text |-> text]

\* make_image_message(original, preview, url): both paths resolved against url
make_image_message(original, preview, url) ==
    [type |-> "image", originalContentUrl |-> <<url, original>>,
     previewImageUrl |-> <<url, preview>>]

\* make_flex_message(contents): the FlexMessage of the contents
make_flex_message(contents) == [type |-> "flex", altText |-> "flex", contents |-> contents]

\* m(**kwargs) for a message maker m
CallMaker(m, url) ==
    IF m.fn = "text" THEN make_text_message(m.arg) ELSE make_flex_message(m.arg)

\* [partial(make_text_message, text)], the messages a self-loop installs
Fixed(text) == << TextMaker(text) >>

-----------------------------------------------------------------------------
(* Counter: a dict from keys to counts that keeps its keys in insertion   *)
(* order, here the sequence of its items [k, n]                           *)

Keys(t) == {t[i].k : i \in DOMAIN t}

\* Counter.__getitem__: zero for a missing key
Count(t, x) ==
    IF x \in Keys(t) THEN t[CHOOSE i \in DOMAIN t : t[i].k = x].n ELSE 0

\* self.state[a] += 1: a new key goes to the end, a known key keeps its place
Increment(t, a) ==
    IF a \in Keys(t)
    THEN [i \in DOMAIN t |-> IF t[i].k = a THEN [k |-> a, n |-> t[i].n + 1] ELSE t[i]]
    ELSE Append(t, [k |-> a, n |-> 1])

\* the number of answers a tally holds
Total(t) == LET RECURSIVE sum(_)
                sum(i) == IF i = 0 THEN 0 ELSE t[i].n + sum(i - 1)
            IN  sum(Len(t))

\* most_common(1) that keeps the last item of greatest count
most_common_1_last(t) ==
    IF t = <<>> THEN <<>>
    ELSE << t[CHOOSE i \in DOMAIN t :
                /\ \A j \in DOMAIN t : t[j].n <= t[i].n
                /\ \A j \in DOMAIN t : t[j].n = t[i].n => j <= i] >>

\* Counter.most_common(1): heapq.nlargest(1, items, key=count), which is
\* max(items, key=count): the first item, in insertion order, of greatest count
most_common_1(t) ==
    IF t = <<>> THEN <<>>
    ELSE << t[Least({i \in DOMAIN t : \A j \in DOMAIN t : t[j].n <= t[i].n})] >>

-----------------------------------------------------------------------------
(* urllib.parse.parse_qs *)

\* parse_qs(text): fields without '=' or with a blank value are dropped
\* (keep_blank_values=False), the values of a name are listed in order
parse_qs(text) ==
    LET kept == SelectSeq(text, LAMBDA f : f.eq /\ f.v # "")
        names == {kept[i].k : i \in DOMAIN kept}
        of(n) == SelectSeq(kept, LAMBDA f : f.k = n)
    IN  [n \in names |-> [i \in DOMAIN of(n) |-> of(n)[i].v]]

\* the mapping pattern {"q": [q], "a": [a]}: both keys, one value each,
\* other keys allowed
MatchQA(qa) ==
    /\ "q" \in DOMAIN qa /\ Len(qa["q"]) = 1
    /\ "a" \in DOMAIN qa /\ Len(qa["a"]) = 1

-----------------------------------------------------------------------------
(* Nodes (ChatDefault, ChatQA, ChatStore, ChatEnd, ChatInit) *)

Users == {"u1", "u2"}

\* the webhook requests that may be in progress at the same time
RequestIds == {"r1", "r2"}

\* addresses of the Counter objects: one for the current node of each user,
\* one for the node held by the handler of each request and one for a
\* Counter under construction
TallyIds == 1 .. (Cardinality(Users) + Cardinality(RequestIds) + 1)

\* ChatInit(): no fields
ChatInit ==
    [cls |-> "Init", dest |-> "", messages |-> <<>>, state |-> 0, label |-> "",
     answer |-> "", attempt |-> {}, data |-> <<>>]

\* maker(state=sid): the dataclass constructor, attempt from its default factory
NewNode(m, sid) ==
    [cls |-> m.cls, dest |-> m.dest, messages |-> m.messages, state |-> sid,
     label |-> m.label, answer |-> m.answer, attempt |-> {}, data |-> m.data]

\* one Counter, made once, that every node constructed without a tally
\* gets (a mutable default in place of a default factory)
NewCounter_default(T) ==
    IF DOMAIN T = {}
    THEN [id |-> Least(TallyIds), tallies |-> [i \in {Least(TallyIds)} |-> <<>>]]
    ELSE [id |-> Least(DOMAIN T), tallies |-> T]

\* Counter(): a new empty Counter at an address that is not in use
NewCounter(T) ==
    LET id == Least(TallyIds \ DOMAIN T)
    IN  [id |-> id, tallies |-> [i \in DOMAIN T \cup {id} |-> IF i = id THEN <<>> ELSE T[i]]]

\* CHATFLOW_MAKERS[name](state=sid): KeyError when name is no key
Construct(self, name, sid, T) ==
    IF name \in DOMAIN makers
    THEN [err |-> NoError, node |-> NewNode(makers[name], sid), tallies |-> T]
    ELSE [err |-> "KeyError", node |-> self, tallies |-> T]

\* a self-loop that appends the fixed message to the messages of the node
SelfLoop_append(self, text, T) ==
    [err |-> NoError, node |-> [self EXCEPT !.messages = @ \o Fixed(text)], tallies |-> T]

\* a transition that returns self with new messages
SelfLoop(self, text, T) ==
    [err |-> NoError, node |-> [self EXCEPT !.messages = Fixed(text)], tallies |-> T]

\* ChatDefault.transition that passes a new Counter to the next node
ChatDefault_transition_fresh(self, text, T) ==
    LET c == [id |-> Least(TallyIds \ DOMAIN T),
              tallies |-> [i \in DOMAIN T \cup {Least(TallyIds \ DOMAIN T)} |->
                             IF i \in DOMAIN T THEN T[i] ELSE <<>>]]
    IN  IF self.dest \in DOMAIN makers
        THEN [err |-> NoError, node |-> NewNode(makers[self.dest], c.id), tallies |-> c.tallies]
        ELSE [err |-> "KeyError", node |-> self, tallies |-> T]

ChatDefault_transition(self, text, T) == Construct(self, self.dest, self.state, T)

\* ChatQA.transition without the comparison of q with the label
ChatQA_transition_nolabel(self, text, T) ==
    LET qa == parse_qs(text)
    IN  IF ~MatchQA(qa) THEN SelfLoop(self, UNKNOWN_ERROR, T)
        ELSE LET a == qa["a"][1]
             IN  IF a \in self.attempt THEN SelfLoop(self, DUPLICATE_ANSWER, T)
                 ELSE IF a # self.answer
                      THEN SelfLoop([self EXCEPT !.attempt = @ \cup {a}], WRONG_ANSWER, T)
                 ELSE Construct(self, self.dest, self.state, T)

\* ChatQA.transition that forgets the attempts on an unrecognized input
ChatQA_transition_forget(self, text, T) ==
    LET qa == parse_qs(text)
    IN  IF ~MatchQA(qa) THEN SelfLoop([self EXCEPT !.attempt = {}], UNKNOWN_ERROR, T)
        ELSE LET q == qa["q"][1]
                 a == qa["a"][1]
             IN  IF q # self.label THEN SelfLoop(self, QUESTION_MISMATCH, T)
                 ELSE IF a \in self.attempt THEN SelfLoop(self, DUPLICATE_ANSWER, T)
                 ELSE IF a # self.answer
                      THEN SelfLoop([self EXCEPT !.attempt = @ \cup {a}], WRONG_ANSWER, T)
                 ELSE Construct(self, self.dest, self.state, T)

\* ChatQA.transition that hands a new Counter to the next node
ChatQA_transition_reset(self, text, T) ==
    LET qa == parse_qs(text)
    IN  IF ~MatchQA(qa) THEN SelfLoop(self, UNKNOWN_ERROR, T)
        ELSE LET q == qa["q"][1]
                 a == qa["a"][1]
             IN  IF q # self.label THEN SelfLoop(self, QUESTION_MISMATCH, T)
                 ELSE IF a \in self.attempt THEN SelfLoop(self, DUPLICATE_ANSWER, T)
                 ELSE IF a # self.answer
                      THEN SelfLoop([self EXCEPT !.attempt = @ \cup {a}], WRONG_ANSWER, T)
                 ELSE Construct(self, self.dest, NewCounter(T).id, NewCounter(T).tallies)

ChatQA_transition(self, text, T) ==
    LET qa == parse_qs(text)
    IN  IF ~MatchQA(qa) THEN SelfLoop(self, UNKNOWN_ERROR, T)
        ELSE LET q == qa["q"][1]
                 a == qa["a"][1]
             IN  IF q # self.label THEN SelfLoop(self, QUESTION_MISMATCH, T)
                 ELSE IF a \in self.attempt THEN SelfLoop(self, DUPLICATE_ANSWER, T)
                 ELSE IF a # self.answer
                      THEN SelfLoop([self EXCEPT !.attempt = @ \cup {a}], WRONG_ANSWER, T)
                 ELSE ChatDefault_transition(self, text, T)

\* ChatStore.transition that counts the answer before it compares q
ChatStore_transition_always(self, text, T) ==
    LET qa == parse_qs(text)
    IN  IF ~MatchQA(qa) THEN SelfLoop(self, UNKNOWN_ERROR, T)
        ELSE LET q == qa["q"][1]
                 a == qa["a"][1]
                 T1 == [T EXCEPT ![self.state] = Increment(@, a)]
             IN  IF q # self.label THEN SelfLoop(self, QUESTION_MISMATCH, T1)
                 ELSE Construct(self, self.dest, self.state, T1)

ChatStore_transition(self, text, T) ==
    LET qa == parse_qs(text)
    IN  IF ~MatchQA(qa) THEN SelfLoop(self, UNKNOWN_ERROR, T)
        ELSE LET q == qa["q"][1]
                 a == qa["a"][1]
             IN  IF q # self.label THEN SelfLoop(self, QUESTION_MISMATCH, T)
                 ELSE ChatDefault_transition(self, text,
                        [T EXCEPT ![self.state] = Increment(@, a)])

\* ChatEnd.transition that keeps the Counter, like ChatDefault
ChatEnd_transition_keep(self, text, T) == Construct(self, self.dest, self.state, T)

ChatEnd_transition(self, text, T) ==
    LET c == NewCounter(T) IN Construct(self, self.dest, c.id, c.tallies)

\* ChatInit.transition with a Counter that is shared, not created
ChatInit_transition_shared(self, text, T) ==
    IF DOMAIN T = {} THEN LET c == NewCounter(T) IN Construct(self, "Begin", c.id, c.tallies)
    ELSE Construct(self, "Begin", Least(DOMAIN T), T)

ChatInit_transition(self, text, T) ==
    LET c == NewCounter(T) IN Construct(self, "Begin", c.id, c.tallies)

\* chat.transition(text), by the class of chat
transition(self, text, T) ==
    CASE self.cls = "Init" -> ChatInit_transition(self, text, T)
      [] self.cls = "Default" -> ChatDefault_transition(self, text, T)
      [] self.cls = "QA" -> ChatQA_transition(self, text, T)
      [] self.cls = "Store" -> ChatStore_transition(self, text, T)
      [] self.cls = "End" -> ChatEnd_transition(self, text, T)

\* ChatDefault.get_messages (inherited by ChatQA and ChatStore)
ChatDefault_get_messages(self, T, url) ==
    [err |-> NoError, key |-> "",
     messages |-> [i \in DOMAIN self.messages |-> CallMaker(self.messages[i], url)]]

\* self.data[i] for an int i: a negative index counts from the end
Subscript(data, i) ==
    IF 0 <= i /\ i < Len(data) THEN [err |-> NoError, x |-> data[i + 1]]
    ELSE IF i < 0 /\ -Len(data) <= i THEN [err |-> NoError, x |-> data[Len(data) + i + 1]]
    ELSE [err |-> "IndexError", x |-> Bundle("")]

\* ChatEnd.get_messages; key is the k it unpacked from most_common(1)
ChatEnd_get_messages(self, T, url) ==
    LET mc == most_common_1(T[self.state])
    IN  IF Len(mc) # 1 THEN [err |-> "ValueError", key |-> "", messages |-> <<>>]
        ELSE LET k == mc[1].k
             IN  IF Len(k) # 1 THEN [err |-> "TypeError", key |-> k, messages |-> <<>>]
                 ELSE LET i == Ord[k] - Ord["A"]
                      IN  IF i < Len(self.data)
                          THEN LET s == Subscript(self.data, i)
                               IN  IF s.err # NoError
                                   THEN [err |-> s.err, key |-> k, messages |-> <<>>]
                                   ELSE [err |-> NoError, key |-> k, messages |->
                                           << make_image_message(s.x.original, s.x.preview, url),
                                              make_text_message(s.x.text) >>]
                          ELSE [err |-> NoError, key |-> k,
                                messages |-> << make_text_message(UNKNOWN_ERROR) >>]

ChatInit_get_messages(self, T, url) == [err |-> NoError, key |-> "", messages |-> <<>>]

\* chat.get_messages(url=url), by the class of chat
get_messages(self, T, url) ==
    CASE self.cls = "Init" -> ChatInit_get_messages(self, T, url)
      [] self.cls = "End" -> ChatEnd_get_messages(self, T, url)
      [] OTHER -> ChatDefault_get_messages(self, T, url)

-----------------------------------------------------------------------------
(* Events and the Session Directory (Chatflow, handle_event) *)

Field(k, v) == [k |-> k, eq |-> TRUE, v |-> v]

\* q=<q>&a=<a>
QA(q, a) == << Field("q", q), Field("a", a) >>

\* hi
Hi == << [k |-> "hi", eq |-> FALSE, v |-> ""] >>

\* the data of the postback events of user u1
Texts ==
    { << Field("q", "S"), Field("a", "") >>,                     \* q=S&a=
      << Field("q", "Q"), Field("a", "A"), Field("a", "B") >>,   \* q=Q&a=A&a=B
      << Field("a", "A"), Field("q", "S"), Field("x", "1") >>,   \* a=A&q=S&x=1
      QA("Q", "A"), QA("Q", "B"), QA("Q", "C"), QA("L", "A"),
      QA("S", "A"), QA("S", "B"), QA("S", "C"),
      QA("K", "@"), QA("K", "AB") }                              \* no offered letter

Event(u, tok, kind, text) == [user |-> u, token |-> tok, kind |-> kind, text |-> text]

\* kind: a text message, a postback, a follow, a message that is no text
\* (sticker), any other event (unfollow); user u1 sends every text, user u2
\* a few, and some events lack the user id or the reply token
Events ==
    {Event("u1", "tok", "postback", t) : t \in Texts}
    \cup {Event(u, "tok", "follow", <<>>) : u \in Users}
    \cup {Event("u1", "tok", k, <<>>) : k \in {"sticker", "unfollow"}}
    \cup {Event("u1", "tok", "message", Hi),
          Event("u2", "tok", "message", Hi),
          Event("u2", "tok", "postback", QA("L", "A")),
          Event(None, "tok", "message", QA("S", "A")),
          Event("u2", None, "message", QA("S", "A"))}

\* Chatflow.__getitem__ with __missing__: an absent key yields ChatInit(),
\* which is not stored
Lookup(cf, u) == IF u \in DOMAIN cf THEN cf[u] ELSE ChatInit

\* chatflow[user_id] = chat
Store(cf, u, chat) == [v \in DOMAIN cf \cup {u} |-> IF v = u THEN chat ELSE cf[v]]

\* the request is handed to line_api.reply_message
Reply(cf, T, chat, gm) ==
    [chatflow |-> cf, tallies |-> T, chat |-> chat, err |-> NoError, key |-> gm.key,
     messages |-> gm.messages,
     outcome |-> "replied"]

Raised(cf, T, chat, err) ==
    [chatflow |-> cf, tallies |-> T, chat |-> chat, err |-> err, key |-> "",
     messages |-> <<>>, outcome |-> "raised"]

Ignored(cf, T, chat) ==
    [chatflow |-> cf, tallies |-> T, chat |-> chat, err |-> NoError, key |-> "",
     messages |-> <<>>, outcome |-> "ignored"]

\* the request built from chat.get_messages(url=url)
Respond(cf, T, chat) ==
    LET gm == get_messages(chat, T, URL)
    IN  IF gm.err # NoError THEN Raised(cf, T, chat, gm.err)
        ELSE Reply(cf, T, chat, gm)

\* handle_event whose first match does not require the reply token and
\* whose second match takes any message for a text message
handle_event_lax(cf, T, ev) ==
    IF ev.user = None THEN Ignored(cf, T, ChatInit)
    ELSE LET chat == Lookup(cf, ev.user)
         IN  IF ev.kind \in {"message", "postback", "sticker"}
             THEN LET t == transition(chat, ev.text, T)
                  IN  IF t.err # NoError THEN Raised(cf, t.tallies, chat, t.err)
                      ELSE Respond(Store(cf, ev.user, t.node), t.tallies, t.node)
             ELSE IF ev.kind = "follow" THEN Respond(cf, T, chat)
             ELSE Ignored(cf, T, chat)

\* handle_event over a directory that stores the node of a missing key when
\* it is looked up, as a defaultdict without __missing__ overridden does
handle_event_setdefault(cf, T, ev) ==
    IF ev.user = None \/ ev.token = None THEN Ignored(cf, T, ChatInit)
    ELSE LET c == NewCounter(T)
             seen == ev.user \in DOMAIN cf
             chat == IF seen THEN cf[ev.user] ELSE [ChatInit EXCEPT !.state = c.id]
             cf1 == Store(cf, ev.user, chat)
             T1 == IF seen THEN T ELSE c.tallies
         IN  IF ev.kind \in {"message", "postback"}
             THEN LET t == transition(chat, ev.text, T1)
                  IN  IF t.err # NoError THEN Raised(cf1, t.tallies, chat, t.err)
                      ELSE Respond(Store(cf1, ev.user, t.node), t.tallies, t.node)
             ELSE IF ev.kind = "follow" THEN Respond(cf1, T1, chat)
             ELSE Ignored(cf1, T1, chat)

\* handle_event(event, line_api, chatflow, url)
handle_event(cf, T, ev) ==
    IF ev.user = None \/ ev.token = None THEN Ignored(cf, T, ChatInit)
    ELSE LET chat == Lookup(cf, ev.user)
         IN  IF ev.kind \in {"message", "postback"}
             THEN LET t == transition(chat, ev.text, T)
                  IN  IF t.err # NoError THEN Raised(cf, t.tallies, chat, t.err)
                      ELSE Respond(Store(cf, ev.user, t.node), t.tallies, t.node)
             ELSE IF ev.kind = "follow" THEN Respond(cf, T, chat)
             ELSE Ignored(cf, T, chat)

\* the users in a fixed order
UserSeq == << "u1", "u2" >>

\* The heap up to a renaming of addresses.  The Counters no node of the
\* directory references are freed, and those that remain are renamed, in
\* the order of the users that reference them, to 1, 2, ...; which nodes
\* share a Counter is kept.
Rename(cf, id) ==
    LET first == Least({i \in DOMAIN UserSeq :
                          UserSeq[i] \in DOMAIN cf /\ cf[UserSeq[i]].state = id})
    IN  Cardinality({cf[UserSeq[j]].state :
                       j \in {j \in 1 .. (first - 1) : UserSeq[j] \in DOMAIN cf}}) + 1

CollectNodes(cf) == [u \in DOMAIN cf |-> [cf[u] EXCEPT !.state = Rename(cf, @)]]

CollectTallies(cf, T) ==
    LET live == {cf[u].state : u \in DOMAIN cf}
    IN  [i \in {Rename(cf, id) : id \in live} |->
            T[CHOOSE id \in live : Rename(cf, id) = i]]

-----------------------------------------------------------------------------
(* History: what the last event did, and for each user of the directory    *)
(* the answers the Store nodes accepted since the user's traversal began   *)
(* and the wrong answers submitted to the user's present QA node           *)

NoEvent == Event(None, None, "none", <<>>)

NoHist == [answers |-> <<>>, tried |-> {}, rejected |-> None]

NoLast ==
    [ev |-> NoEvent, pre |-> ChatInit, preTally |-> <<>>, preTried |-> {},
     post |-> ChatInit, outcome |-> "none", err |-> NoError, key |-> "",
     messages |-> <<>>]

\* the event reaches a node's transition
Transits(ev) ==
    ev.user # None /\ ev.token # None /\ ev.kind \in {"message", "postback"}

\* the text is a submission to the node: one q, one a, q the node's label
Submits(node, text) ==
    MatchQA(parse_qs(text)) /\ parse_qs(text)["q"][1] = node.label

Answer(text) == parse_qs(text)["a"][1]

HistOf(h, u) == IF u \in DOMAIN h THEN h[u] ELSE NoHist

NextHist(cf, h, ev, r) ==
    IF ~Transits(ev) \/ r.err = "KeyError" THEN h
    ELSE LET u == ev.user
             pre == Lookup(cf, u)
             old == HistOf(h, u)
             answers == IF pre.cls \in {"Init", "End"} THEN <<>>
                        ELSE IF pre.cls = "Store" /\ Submits(pre, ev.text)
                             THEN Append(old.answers, Answer(ev.text))
                        ELSE old.answers
             tried == IF pre.cls # "QA" THEN {}
                      ELSE IF ~Submits(pre, ev.text) THEN old.tried
                      ELSE IF Answer(ev.text) = pre.answer THEN {}
                      ELSE old.tried \cup {Answer(ev.text)}
             \* the fixed text of the rejection, None when the input is accepted
             \* or the node is no QA or Store node
             rejected ==
                IF pre.cls \notin {"QA", "Store"} THEN None
                ELSE IF ~MatchQA(parse_qs(ev.text)) THEN UNKNOWN_ERROR
                ELSE IF ~Submits(pre, ev.text) THEN QUESTION_MISMATCH
                ELSE IF pre.cls = "Store" \/ Answer(ev.text) = pre.answer THEN None
                ELSE IF Answer(ev.text) \in old.tried THEN DUPLICATE_ANSWER
                ELSE WRONG_ANSWER
         IN  [v \in DOMAIN h \cup {u} |->
                IF v = u THEN [answers |-> answers, tried |-> tried,
                               rejected |-> rejected]
                ELSE h[v]]

-----------------------------------------------------------------------------
(* Requests in progress: handle_callback as a coroutine that runs from one *)
(* suspension point to the next                                            *)

\* a handler that replaces the entry of the directory after get_messages
HandlerSteps_write_last == << "read", "transition", "get_messages", "write", "reply" >>

\* handle_event as the sequence of its steps
HandlerSteps == << "read", "transition", "write", "get_messages", "reply" >>

\* a handler whose transition awaits as well
AwaitPoints_transition == {"transition", "reply"}

\* the steps at which the coroutine suspends: await line_api.reply_message
AwaitPoints == {"reply"}

\* the coroutine of a request: its events, the index of the event in
\* hand, the step to run next, the locals chat and req of handle_event and
\* the steps run for the event in hand.  status: none (not arrived),
\* suspended, running, done (returned "OK"), failed (HTTPException of
\* handle_event), raised (any other exception)
NoTask ==
    [batch |-> <<>>, i |-> 0, pc |-> 0, status |-> "none", chat |-> ChatInit,
     req |-> <<>>, steps |-> <<>>, err |-> NoError]

\* handle_event returns: the loop of handle_callback takes the next event,
\* and after the last one handle_callback returns "OK"
Return(st, r) ==
    LET t == st.tasks[r]
    IN  IF t.i < Len(t.batch)
        THEN [st EXCEPT !.tasks[r] = [t EXCEPT !.i = @ + 1, !.pc = 1, !.chat = ChatInit,
                                               !.req = <<>>, !.steps = <<>>]]
        ELSE [st EXCEPT !.tasks[r] = [t EXCEPT !.status = "done", !.chat = ChatInit,
                                               !.req = <<>>]]

\* an exception no handler catches ends the request
Raise(st, r, step, err) ==
    [st EXCEPT !.tasks[r] = [@ EXCEPT !.status = "raised", !.err = err,
                                      !.steps = Append(@, step)]]

\* the step is done: the next one follows, after a suspension if the step
\* awaits
Advance(st, r, step) ==
    [st EXCEPT !.tasks[r] = [@ EXCEPT !.pc = @ + 1, !.steps = Append(@, step),
                                      !.status = IF step \in AwaitPoints
                                                 THEN "suspended" ELSE @]]

\* one step of handle_event for the event in hand of request r
Exec(st, r, step) ==
    LET t == st.tasks[r]
        ev == t.batch[t.i]
        transits == ev.kind \in {"message", "postback"}
        \* handle_event is called with the event
        called == [st EXCEPT !.applied = Append(@, [rid |-> r, i |-> t.i])]
    IN  CASE step = "read" ->
               IF ev.user = None \/ ev.token = None THEN Return(called, r)
               ELSE Advance([called EXCEPT !.tasks[r].chat = Lookup(st.cf, ev.user)],
                            r, step)
          [] step = "transition" ->
               IF transits
               THEN LET x == transition(t.chat, ev.text, st.T)
                    IN  IF x.err # NoError
                        THEN Raise([st EXCEPT !.T = x.tallies], r, step, x.err)
                        ELSE Advance([st EXCEPT !.T = x.tallies,
                                                !.tasks[r].chat = x.node], r, step)
               ELSE IF ev.kind = "follow" THEN Advance(st, r, step)
               ELSE Return(st, r)
          [] step = "write" ->
               IF transits
               THEN Advance([st EXCEPT !.cf = Store(st.cf, ev.user, t.chat)], r, step)
               ELSE Advance(st, r, step)
          [] step = "get_messages" ->
               LET gm == get_messages(t.chat, st.T, URL)
               IN  IF gm.err # NoError THEN Raise(st, r, step, gm.err)
                   ELSE Advance([st EXCEPT !.tasks[r].req = gm.messages], r, step)
          [] step = "reply" ->
               Advance([st EXCEPT !.sent = Append(@, [rid |-> r, i |-> t.i,
                                                      result |-> "pending"])], r, step)

\* the body of the request has been read and parsed: the loop of
\* handle_callback takes its first event
FirstEvent(st, r) ==
    [st EXCEPT !.tasks[r] = [@ EXCEPT !.status = "running", !.i = 1, !.pc = 1]]

\* a handler that hands the request to the delivery client once more when
\* the delivery fails
Delivered_retry(st, r, ok) ==
    LET t == st.tasks[r]
        j == CHOOSE j \in DOMAIN st.sent :
                st.sent[j] = [rid |-> r, i |-> t.i, result |-> "pending"]
    IN  IF ok THEN [st EXCEPT !.sent[j].result = "ok", !.tasks[r].status = "running"]
        ELSE [st EXCEPT !.sent = Append([@ EXCEPT ![j].result = "failed"],
                                        [rid |-> r, i |-> t.i, result |-> "pending"])]

\* a handler that logs the failure of the delivery and goes on
Delivered_goes_on(st, r, ok) ==
    LET t == st.tasks[r]
        j == CHOOSE j \in DOMAIN st.sent :
                st.sent[j] = [rid |-> r, i |-> t.i, result |-> "pending"]
    IN  [st EXCEPT !.sent[j].result = IF ok THEN "ok" ELSE "failed",
                   !.tasks[r].status = "running"]

\* line_api.reply_message returns (ok) or raises ApiException, which
\* handle_event turns into an HTTPException that ends the request
Delivered(st, r, ok) ==
    LET t == st.tasks[r]
        j == CHOOSE j \in DOMAIN st.sent :
                st.sent[j] = [rid |-> r, i |-> t.i, result |-> "pending"]
    IN  [st EXCEPT !.sent[j].result = IF ok THEN "ok" ELSE "failed",
                   !.tasks[r].status = IF ok THEN "running" ELSE "failed"]

\* the coroutine of request r runs up to its next suspension or its end
RECURSIVE Run(_, _)
Run(st, r) ==
    LET t == st.tasks[r]
    IN  IF t.status # "running" THEN st
        ELSE IF t.pc > Len(HandlerSteps)
        THEN Run(Return(st, r), r)
        ELSE Run(Exec(st, r, HandlerSteps[t.pc]), r)

\* the Counters that the directory or the handler of a request in progress
\* references; the others are freed
Live(st) ==
    {st.cf[u].state : u \in DOMAIN st.cf}
    \cup {st.tasks[r].chat.state :
             r \in {r \in RequestIds : st.tasks[r].status \in {"running", "suspended"}}}

Free(st) == [i \in DOMAIN st.T \cap Live(st) |-> st.T[i]]

\* the events of the webhook requests that run side by side
ConcEvents ==
    {Event("u1", "tok", "message", Hi),
     Event("u1", "tok", "postback", QA("L", "A")),
     Event("u1", "tok", "postback", QA("Q", "A")),
     Event("u1", "tok", "follow", <<>>),
     Event("u2", "tok", "message", Hi)}

\* the events of one webhook request
Batches == {<< e >> : e \in ConcEvents} \cup {<< e, f >> : e, f \in ConcEvents}

-----------------------------------------------------------------------------
(* The state machine *)

EmptyFn == [x \in {} |-> 0]

InitWith(configs) ==
    /\ raw \in configs
    /\ phase = "boot"
    /\ makers = EmptyFn
    /\ loadError = [err |-> NoError, at |-> 0]
    /\ chatflow = EmptyFn
    /\ tallies = EmptyFn
    /\ hist = EmptyFn
    /\ last = NoLast
    /\ tasks = [r \in RequestIds |-> NoTask]
    /\ sent = <<>>
    /\ applied = <<>>

\* the deployment: a document whose names all resolve
Init == InitWith(GoodConfigs)

\* the loader on documents of every kind
InitAny == InitWith(LoaderConfigs)

\* the module-level CHATFLOW_MAKERS = load_chatflow(path)
Load ==
    /\ phase = "boot"
    /\ LET r == load_chatflow(raw)
       IN  /\ phase' = IF r.err = NoError THEN "serving" ELSE "failed"
           /\ makers' = IF r.err = NoError THEN r.makers ELSE EmptyFn
           /\ loadError' = [err |-> r.err, at |-> r.at]
    /\ UNCHANGED <<raw, chatflow, tallies, hist, last, tasks, sent, applied>>

\* one webhook event handled by handle_event, up to the call of the
\* delivery client
HandleEvent(ev) ==
    /\ phase = "serving"
    /\ LET r == handle_event(chatflow, tallies, ev)
           \* the node the handler reads from the directory
           pre == IF ev.user = None THEN ChatInit ELSE Lookup(chatflow, ev.user)
       IN  /\ \A i \in DOMAIN r.tallies : Total(r.tallies[i]) <= MaxCount
           /\ chatflow' = CollectNodes(r.chatflow)
           /\ tallies' = CollectTallies(r.chatflow, r.tallies)
           /\ hist' = NextHist(chatflow, hist, ev, r)
           /\ last' = [ev |-> ev, pre |-> pre,
                       preTally |-> IF pre.state \in DOMAIN tallies
                                    THEN tallies[pre.state] ELSE <<>>,
                       preTried |-> HistOf(hist, ev.user).tried,
                       post |-> r.chat, outcome |-> r.outcome, err |-> r.err,
                       key |-> r.key, messages |-> r.messages]
    /\ UNCHANGED <<raw, phase, makers, loadError, tasks, sent, applied>>

Next ==
    \/ Load
    \/ \E ev \in Events : HandleEvent(ev)

Spec == Init /\ [][Next]_vars

\* documents for the requests that run side by side
ConcConfigs == {G_Loop, G_Short}

InitConc == InitWith(ConcConfigs)

\* a webhook request arrives: its coroutine runs up to await request.body()
Arrive(r, batch) ==
    /\ phase = "serving"
    /\ tasks[r].status = "none"
    /\ tasks' = [tasks EXCEPT ![r] = [NoTask EXCEPT !.batch = batch,
                                                     !.status = "suspended"]]
    /\ UNCHANGED <<raw, phase, makers, loadError, chatflow, tallies, hist, last,
                   sent, applied>>

\* the event loop resumes the coroutine of request r: the call it awaited
\* returns, or raises when it is a delivery that fails (~ok), and the
\* coroutine runs up to its next suspension or its end
Resume(r, ok) ==
    /\ phase = "serving"
    /\ tasks[r].status = "suspended"
    /\ LET t == tasks[r]
           st == [cf |-> chatflow, T |-> tallies, tasks |-> tasks, sent |-> sent,
                  applied |-> applied]
           resumed == IF t.i = 0 THEN FirstEvent(st, r)
                      ELSE IF HandlerSteps[t.pc - 1] = "reply" THEN Delivered(st, r, ok)
                      ELSE [st EXCEPT !.tasks[r].status = "running"]
           end == Run(resumed, r)
       IN  /\ chatflow' = end.cf
           /\ tallies' = Free(end)
           /\ tasks' = end.tasks
           /\ sent' = end.sent
           /\ applied' = end.applied
    /\ UNCHANGED <<raw, phase, makers, loadError, hist, last>>

NextConc ==
    \/ Load
    \/ \E r \in RequestIds, batch \in Batches : Arrive(r, batch)
    \/ \E r \in RequestIds, ok \in BOOLEAN : Resume(r, ok)

SpecConc == InitConc /\ [][NextConc]_vars

SpecLoad == InitAny /\ [][Next]_vars

\* the loader and the handler on documents with a template message
InitTemplate == InitWith(TemplateConfigs)

SpecTemplate == InitTemplate /\ [][Next]_vars

-----------------------------------------------------------------------------
(* Properties *)

\* the Counter of the node the directory holds for user u
TallyOf(u) == tallies[chatflow[u].state]

\* the last event was handed to the transition of the node `pre`
Transited == Transits(last.ev)

\* two nodes with the same fields, whatever the address of their Counter
SameFields(n, m) == [n EXCEPT !.state = 0] = [m EXCEPT !.state = 0]

\* the number of times x occurs in a sequence of answers
Occurrences(h, x) == Cardinality({i \in DOMAIN h : h[i] = x})

\* the position at which x first occurs in a sequence of answers
FirstAt(h, x) == Least({i \in DOMAIN h : h[i] = x})

\* C1: once a configuration has loaded, no event makes the engine raise,
\* neither in a transition nor in get_messages of the node reached.
C1_NeverRaises == phase = "serving" => last.outcome # "raised"

\* C2: a document in which some dest is no key does not load: in every
\* loaded graph each dest names a node factory, and no transition looks up
\* a missing name.
C2_DestsResolve ==
    /\ phase = "serving" => \A k \in DOMAIN makers : makers[k].dest \in DOMAIN makers
    /\ last.err # "KeyError"

\* C3: the first message or postback event of a user without an entry in
\* the directory, whatever its text, moves the user from Init to the node
\* "Begin", whose tally is a newly created empty Counter.
C3_InitToBegin ==
    (Transited /\ last.pre.cls = "Init") =>
        /\ last.err = NoError
        /\ last.ev.user \in DOMAIN chatflow
        /\ last.post = NewNode(makers["Begin"], last.post.state)
        /\ SameFields(chatflow[last.ev.user], last.post)
        /\ TallyOf(last.ev.user) = <<>>
        /\ \A v \in DOMAIN chatflow \ {last.ev.user} :
              chatflow[v].state # chatflow[last.ev.user].state

\* C3 happens: user u2 enters while user u1 is in a traversal with answers
C3_Witness ==
    /\ Transited /\ last.pre.cls = "Init" /\ last.ev.user = "u2"
    /\ "u1" \in DOMAIN chatflow /\ TallyOf("u1") # <<>>
    /\ chatflow["u2"].cls = "Default"

\* the user, the text and the parsed answer of the last event
LastUser == last.ev.user

LastText == last.ev.text

LastQ == parse_qs(LastText)["q"][1]

LastA == parse_qs(LastText)["a"][1]

\* no node of another user references the Counter of u's node
OwnTally(u) == \A v \in DOMAIN chatflow \ {u} : chatflow[v].state # chatflow[u].state

\* C4: a transition on an End node, for any input and any tally, yields the
\* node graph[dest] with a new empty Counter; the counts of the finished
\* traversal are not visible in the new one.
C4_EndResets ==
    (Transited /\ last.pre.cls = "End") =>
        /\ last.err = NoError
        /\ last.post = NewNode(makers[last.pre.dest], last.post.state)
        /\ last.post.state # last.pre.state
        /\ SameFields(chatflow[LastUser], last.post)
        /\ TallyOf(LastUser) = <<>>
        /\ OwnTally(LastUser)

\* C4 happens: an End node whose tally holds two keys receives a postback
C4_Witness ==
    /\ Transited /\ last.pre.cls = "End" /\ Len(last.preTally) >= 2
    /\ last.ev.kind = "postback" /\ MatchQA(parse_qs(LastText))

\* C5: a QA node given one q and one a with q different from its label
\* self-loops with exactly the wrong-question message, leaves attempted and
\* the tally unchanged and does not advance, whether a is the correct
\* answer, a new wrong answer or an answer already attempted.
C5_QAMismatch ==
    (Transited /\ last.pre.cls = "QA" /\ MatchQA(parse_qs(LastText))
       /\ LastQ # last.pre.label) =>
        /\ last.post = [last.pre EXCEPT !.messages = Fixed(QUESTION_MISMATCH)]
        /\ last.messages = << make_text_message(QUESTION_MISMATCH) >>
        /\ chatflow[LastUser] = last.post
        /\ TallyOf(LastUser) = last.preTally

\* C5 happens: the correct answer under a wrong label, after wrong attempts
C5_Witness ==
    /\ Transited /\ last.pre.cls = "QA" /\ MatchQA(parse_qs(LastText))
    /\ LastQ # last.pre.label /\ LastA = last.pre.answer
    /\ last.pre.attempt # {} /\ last.preTally # <<>>

\* C6: on one QA node, the first submission of a wrong answer a (matching
\* q) yields the try-again message and adds a to attempted; every later
\* submission of the same a to that node, whatever came in between, yields
\* the already-answered message and not the try-again message.
C6_WrongThenDuplicate ==
    (Transited /\ last.pre.cls = "QA" /\ Submits(last.pre, LastText)
       /\ LastA # last.pre.answer) =>
        /\ last.post.cls = "QA" /\ chatflow[LastUser] = last.post
        /\ LastA \notin last.preTried =>
              /\ last.messages = << make_text_message(WRONG_ANSWER) >>
              /\ last.post.attempt = last.pre.attempt \cup {LastA}
        /\ LastA \in last.preTried =>
              /\ last.messages = << make_text_message(DUPLICATE_ANSWER) >>
              /\ last.post.attempt = last.pre.attempt

\* C6 happens: a wrong answer is submitted again after another wrong answer
\* and an unrecognized input
C6_Witness ==
    /\ Transited /\ last.pre.cls = "QA" /\ Submits(last.pre, LastText)
    /\ LastA \in last.preTried /\ Cardinality(last.preTried) = 2
    /\ last.pre.messages = Fixed(UNKNOWN_ERROR)

\* the answers that occur in a sequence of answers
Range(h) == {h[i] : i \in DOMAIN h}

\* C7: a QA node given its correct answer with matching q advances to
\* graph[dest] with the same tally, whatever the number of wrong answers
\* submitted before; attempted does not carry over: the attempted set of a
\* QA node holds the wrong answers submitted to that node and no others.
C7_QACorrectAdvances ==
    /\ (Transited /\ last.pre.cls = "QA" /\ Submits(last.pre, LastText)
          /\ LastA = last.pre.answer) =>
            /\ last.post = NewNode(makers[last.pre.dest], last.pre.state)
            /\ chatflow[LastUser] = last.post
            /\ TallyOf(LastUser) = last.preTally
    /\ \A u \in DOMAIN chatflow :
          chatflow[u].cls = "QA" => chatflow[u].attempt = hist[u].tried
    /\ (Transited /\ last.pre.cls # "QA" /\ last.post.cls = "QA") =>
            last.post.attempt = {}

\* C7 happens: in the cycle the QA node is reached a second time in one
\* traversal and advances after two wrong answers
C7_Witness ==
    /\ Transited /\ last.pre.cls = "QA" /\ Submits(last.pre, LastText)
    /\ LastA = last.pre.answer /\ Cardinality(last.pre.attempt) = 2
    /\ Len(hist[LastUser].answers) >= 2 /\ last.post.cls = "Default"

\* C8: a Store transition changes the tally exactly when the input parses
\* to one q and one a with q the node's label: then tally[a] grows by one,
\* every other count is unchanged and the node advances to graph[dest]
\* sharing that tally; otherwise the tally is unchanged and the node
\* self-loops with the fixed message of the case.
C8_StoreCounts ==
    (Transited /\ last.pre.cls = "Store") =>
        IF Submits(last.pre, LastText)
        THEN /\ last.post = NewNode(makers[last.pre.dest], last.pre.state)
             /\ chatflow[LastUser] = last.post
             /\ \A x \in Keys(TallyOf(LastUser)) \cup Keys(last.preTally) :
                   Count(TallyOf(LastUser), x) =
                      Count(last.preTally, x) + (IF x = LastA THEN 1 ELSE 0)
        ELSE LET fixed == IF MatchQA(parse_qs(LastText)) THEN QUESTION_MISMATCH
                          ELSE UNKNOWN_ERROR
             IN  /\ TallyOf(LastUser) = last.preTally
                 /\ last.post = [last.pre EXCEPT !.messages = Fixed(fixed)]
                 /\ chatflow[LastUser] = last.post
                 /\ last.messages = << make_text_message(fixed) >>

\* C8 happens: a Store node accepts an answer the tally already counts,
\* next to another key
C8_Witness ==
    /\ Transited /\ last.pre.cls = "Store" /\ Submits(last.pre, LastText)
    /\ Count(last.preTally, LastA) = 1 /\ Len(last.preTally) = 2
    /\ Count(TallyOf(LastUser), LastA) = 2

\* C9: within one traversal every node shares one tally, and for each
\* answer x tally[x] is the number of Store submissions of x accepted since
\* the traversal began; Default, QA and Store transitions never replace or
\* empty the tally.
C9_TallyIsHistory ==
    /\ \A u \in DOMAIN chatflow :
          \A x \in Keys(TallyOf(u)) \cup Range(hist[u].answers) :
             Count(TallyOf(u), x) = Occurrences(hist[u].answers, x)
    /\ (Transited /\ last.pre.cls \in {"Default", "QA", "Store"}) =>
          /\ last.post.state = last.pre.state
          /\ chatflow[LastUser].state = last.pre.state
          /\ Total(TallyOf(LastUser)) >= Total(last.preTally)

\* C9 happens: in the cycle the same Store node accepts a third answer in
\* one traversal, while the other user has a tally of their own
C9_Witness ==
    /\ raw = G_Loop /\ Transited /\ last.pre.cls = "Store"
    /\ Submits(last.pre, LastText) /\ Len(hist[LastUser].answers) = 3
    /\ DOMAIN chatflow = Users /\ TallyOf("u1") # TallyOf("u2")

\* C10: End.get_messages selects the bundle of the tally key of greatest
\* count, and among several keys of greatest count the one that was
\* incremented first in the traversal.
C10_MostCommonFirst ==
    (last.post.cls = "End" /\ last.outcome = "replied") =>
        LET h == hist[LastUser].answers
            k == last.key
            i == Ord[k] - Ord["A"]
        IN  /\ k \in Range(h)
            /\ \A x \in Range(h) : Occurrences(h, x) <= Occurrences(h, k)
            /\ \A x \in Range(h) \ {k} :
                  Occurrences(h, x) = Occurrences(h, k) => FirstAt(h, k) < FirstAt(h, x)
            /\ (0 <= i /\ i < Len(last.post.data)) =>
                  last.messages =
                     << make_image_message(last.post.data[i + 1].original,
                                           last.post.data[i + 1].preview, URL),
                        make_text_message(last.post.data[i + 1].text) >>

\* C10 happens: A and B are both counted twice, B reached two first but A
\* was incremented first, and bundle 0 is sent
C10_Witness ==
    /\ last.post.cls = "End" /\ last.outcome = "replied"
    /\ hist[LastUser].answers = << "A", "B", "B", "A" >>
    /\ last.key = "A" /\ last.messages[2].text = "r0"

\* the last event made the handler call get_messages of an End node whose
\* tally holds a key
EndSelects ==
    /\ last.outcome \in {"replied", "raised"} /\ last.post.cls = "End"
    /\ last.err # "KeyError"
    /\ LastUser \in DOMAIN chatflow /\ TallyOf(LastUser) # <<>>

\* the key End.get_messages selects from the tally of the last user
SelectedKey == most_common_1(TallyOf(LastUser))[1].k

\* C11: with i the zero-based alphabet position of the selected key,
\* End.get_messages emits the image and the text of results[i] exactly when
\* 0 <= i < len(results); in every other case, a key that is no offered
\* letter included, it emits exactly one message, the fixed fallback text.
C11_EndIndexInRange ==
    EndSelects =>
        LET k == SelectedKey
            data == last.post.data
        IN  /\ last.outcome = "replied"
            /\ IF Len(k) = 1 /\ 0 <= Ord[k] - Ord["A"] /\ Ord[k] - Ord["A"] < Len(data)
               THEN last.messages =
                       << make_image_message(data[Ord[k] - Ord["A"] + 1].original,
                                             data[Ord[k] - Ord["A"] + 1].preview, URL),
                          make_text_message(data[Ord[k] - Ord["A"] + 1].text) >>
               ELSE last.messages = << make_text_message(UNKNOWN_ERROR) >>


\* the last event reached the lookup of the directory: it has a user id and
\* a reply token
LookedUp == last.outcome # "none" /\ last.ev.user # None /\ last.ev.token # None

\* C12: the lookup of a user without an entry returns an Init node and adds
\* no entry: the directory holds exactly the users that completed at least
\* one message or postback transition, and a follow event or an ignored
\* event of an unseen user leaves that user absent.
C12_DirectoryIsTransited ==
    /\ DOMAIN chatflow = DOMAIN hist
    /\ \A u \in DOMAIN chatflow : chatflow[u].cls # "Init"
    /\ (LookedUp /\ ~Transited /\ LastUser \notin DOMAIN chatflow) =>
          /\ last.pre = ChatInit /\ last.post = ChatInit
          /\ last.messages = <<>>

\* C12 happens: the unseen user u2 sends a follow event while user u1 has
\* an entry, and stays absent
C12_Witness ==
    /\ LookedUp /\ last.ev.kind = "follow" /\ LastUser = "u2"
    /\ last.outcome = "replied" /\ last.pre = ChatInit
    /\ DOMAIN chatflow = {"u1"}

\* the event matches none of the handler's patterns
Unmatched(ev) ==
    \/ ev.user = None \/ ev.token = None
    \/ ev.kind \notin {"message", "postback", "follow"}

\* C13: an event that is no text message, postback or follow, or that has
\* no user id or no reply token, changes no entry of the directory and no
\* node or tally, and no reply is handed to the delivery client.
C13_UnmatchedChangesNothing ==
    [][(last' # last /\ Unmatched(last'.ev)) =>
          /\ chatflow' = chatflow /\ tallies' = tallies /\ hist' = hist
          /\ last'.outcome = "ignored" /\ last'.messages = <<>>]_vars

\* C13 happens: a message without reply token arrives from user u2, who
\* has no entry, while user u1 is at a QA node with attempts
C13_Witness ==
    /\ last.outcome = "ignored" /\ last.ev.token = None /\ LastUser = "u2"
    /\ DOMAIN chatflow = {"u1"} /\ chatflow["u1"].cls = "QA"
    /\ chatflow["u1"].attempt # {}

\* C14: each reply-eligible event leads to at most one delivery attempt:
\* when the delivery fails the request fails, and the reply is never handed
\* to the delivery client again.
C14_AtMostOneAttempt ==
    /\ \A j, k \in DOMAIN sent :
          (sent[j].rid = sent[k].rid /\ sent[j].i = sent[k].i) => j = k
    /\ \A j \in DOMAIN sent :
          sent[j].result = "failed" =>
             /\ tasks[sent[j].rid].status = "failed"
             /\ tasks[sent[j].rid].i = sent[j].i
             /\ \A k \in DOMAIN sent : sent[k].rid = sent[j].rid => k <= j

\* C14 happens: the delivery for the first of two events of request r1
\* failed, after a delivery of request r2 succeeded
C14_Witness ==
    /\ Len(sent) = 2
    /\ sent[1] = [rid |-> "r2", i |-> 1, result |-> "ok"]
    /\ sent[2] = [rid |-> "r1", i |-> 1, result |-> "failed"]
    /\ Len(tasks["r1"].batch) = 2 /\ tasks["r1"].status = "failed"

\* the item of the document is malformed: validation or compilation of the
\* item alone fails
Malformed(e) == ValidateEntry(e) # NoError \/ parse_chat(e.node).err # NoError

\* C15: loading inspects every node before it compiles any, and when
\* several nodes are malformed the error reported is that of the first
\* violation in the iteration order of the mapping, whatever the kind of
\* each violation.
C15_FirstViolationReported ==
    (phase = "failed" /\ raw.isDict) =>
        /\ Malformed(raw.items[loadError.at])
        /\ \A i \in 1 .. (loadError.at - 1) : ~Malformed(raw.items[i])

\* the template message of the document and the contents compiled from it
TemplateSpec == raw.items[1].node.messages[1].data

Compiled == makers["Begin"].messages[1].arg

\* the smaller of two numbers
Min(a, b) == IF a <= b THEN a ELSE b

\* C16: compiling a template id=1 spec with label L and n options gives
\* exactly min(n, 26) buttons, in the order of the options, the i-th with
\* postback data q=L&a=<i-th uppercase letter>; options beyond the 26th
\* give no button.
C16_TemplateButtons ==
    (raw \in TemplateConfigs /\ phase = "serving" /\ TemplateSpec.id = 1) =>
        LET n == Len(TemplateSpec.options)
            buttons == {i \in DOMAIN Compiled.footer : Compiled.footer[i].type = "button"}
        IN  /\ buttons = 2 .. (Min(n, 26) + 1)
            /\ Len(Compiled.footer) = Min(n, 26) + 2
            /\ \A i \in 1 .. Min(n, 26) :
                  /\ Compiled.footer[i + 1].action.data =
                        << "q=", TemplateSpec.label, "&a=", ascii_uppercase[i] >>
                  /\ Compiled.footer[i + 1].action.label = TemplateSpec.options[i]

\* C16 happens: a template of 28 options is compiled and sent with 26
\* buttons, the last one for the letter Z
C16_Witness ==
    /\ raw \in TemplateConfigs /\ phase = "serving" /\ TemplateSpec.id = 1
    /\ Len(TemplateSpec.options) = 28
    /\ last.outcome = "replied" /\ last.messages = << make_flex_message(Compiled) >>
    /\ Compiled.footer[27].action.data = << "q=", TemplateSpec.label, "&a=", "Z" >>

\* the requests whose event in hand is a message or postback with user id
\* and reply token
Transiting == {r \in RequestIds : tasks[r].i >= 1 /\ Transits(tasks[r].batch[tasks[r].i])}

\* the position of a step among the steps run, 0 when it was not run
StepAt(steps, name) ==
    IF \E i \in DOMAIN steps : steps[i] = name
    THEN CHOOSE i \in DOMAIN steps : steps[i] = name
    ELSE 0

\* C17 as claimed: in the handling of a message or postback event the node
\* is read, its transition invoked, get_messages of the resulting node
\* called, and only then is the directory entry replaced.
C17_WriteAfterMessages ==
    \A r \in Transiting :
        StepAt(tasks[r].steps, "write") > 0 =>
            /\ StepAt(tasks[r].steps, "get_messages") > 0
            /\ StepAt(tasks[r].steps, "get_messages") < StepAt(tasks[r].steps, "write")

\* C17 amended: the node is read, its transition invoked, the directory
\* entry replaced by the resulting node, and only then get_messages of the
\* resulting node called; so when get_messages raises, the directory holds
\* the resulting node already.
C17_WriteBeforeMessages ==
    [][\A r \in RequestIds :
          (tasks'[r] # tasks[r] /\ tasks'[r].i >= 1
             /\ Transits(tasks'[r].batch[tasks'[r].i])) =>
            LET t == tasks'[r]
                order == << "read", "transition", "write", "get_messages", "reply" >>
            IN  /\ t.steps = SubSeq(order, 1, Len(t.steps))
                /\ StepAt(t.steps, "write") > 0 =>
                      t.batch[t.i].user \in DOMAIN chatflow'
                /\ (t.status = "raised" /\ StepAt(t.steps, "get_messages") > 0) =>
                      chatflow'[t.batch[t.i].user] = t.chat]_vars

\* C17 happens: get_messages of the End node reached raises, and the
\* directory holds that End node
C17_Witness ==
    /\ "r1" \in Transiting /\ tasks["r1"].status = "raised"
    /\ tasks["r1"].steps = << "read", "transition", "write", "get_messages" >>
    /\ chatflow["u1"] = tasks["r1"].chat /\ chatflow["u1"].cls = "End"

\* C18: under every interleaving of the events of different users no two
\* users' current nodes share a tally, and handling an event of user u
\* changes neither the directory entry, the node fields nor the tally of
\* any other user.
C18_TalliesNotShared ==
    [][/\ \A u, v \in DOMAIN chatflow' :
             u # v => chatflow'[u].state # chatflow'[v].state
       /\ \A v \in DOMAIN chatflow' \ DOMAIN chatflow : v = last'.ev.user
       /\ \A v \in DOMAIN chatflow \ {last'.ev.user} :
             /\ v \in DOMAIN chatflow'
             /\ SameFields(chatflow'[v], chatflow[v])
             /\ tallies'[chatflow'[v].state] = tallies[chatflow[v].state]]_vars

\* C18 happens: a Store node of user u2 counts an answer while user u1 is
\* in a traversal with a tally of two answers
C18_Witness ==
    /\ Transited /\ LastUser = "u2" /\ last.pre.cls = "Store"
    /\ Submits(last.pre, LastText)
    /\ DOMAIN chatflow = Users /\ Total(TallyOf("u1")) = 2
    /\ Total(TallyOf("u2")) = 1

\* the directory and the Counters after the events of a sequence of calls
\* of handle_event were handled one after the other, each one as a whole
RECURSIVE Replay(_)
Replay(calls) ==
    IF calls = <<>> THEN [chatflow |-> EmptyFn, tallies |-> EmptyFn]
    ELSE LET before == Replay(SubSeq(calls, 1, Len(calls) - 1))
             call == calls[Len(calls)]
             r == handle_event(before.chatflow, before.tallies,
                               tasks[call.rid].batch[call.i])
         IN  [chatflow |-> CollectNodes(r.chatflow),
              tallies |-> CollectTallies(r.chatflow, r.tallies)]

\* the requests suspended inside handle_event
Awaiting == {r \in RequestIds : tasks[r].status = "suspended" /\ tasks[r].i >= 1}

\* C19: the read of the entry, the transition, the write-back and the
\* production of the messages of one event run without suspension, the
\* only suspension being the delivery call after them; so with requests
\* handled concurrently no update is lost: the directory and the tallies
\* are those of the events applied one after the other in some order (the
\* order in which handle_event was called).
C19_NoLostUpdate ==
    /\ \A r \in Awaiting :
          /\ tasks[r].steps[Len(tasks[r].steps)] = "reply"
          /\ \E j \in DOMAIN sent :
                sent[j] = [rid |-> r, i |-> tasks[r].i, result |-> "pending"]
    /\ CollectNodes(chatflow) = Replay(applied).chatflow
    /\ CollectTallies(chatflow, tallies) = Replay(applied).tallies

\* C19 happens: two requests with events of user u1 are both suspended in
\* their delivery call, the second one having stored an answer at the node
\* the first one has reached
C19_Witness ==
    /\ Awaiting = RequestIds
    /\ \A r \in RequestIds : tasks[r].batch[tasks[r].i].user = "u1"
    /\ tasks["r1"].i = 2 /\ tasks["r2"].i = 1 /\ Len(applied) = 3
    /\ "u1" \in DOMAIN chatflow
    /\ chatflow["u1"].cls = "QA" /\ TallyOf("u1") # <<>>

\* the delivery of the reply of request r fails in the step
Fails(r) ==
    \E j \in DOMAIN sent :
        /\ sent[j].rid = r /\ sent[j].result = "pending"
        /\ sent'[j].result = "failed"

\* C20: when the delivery of the reply for an event fails, the directory
\* entry written for that event is not rolled back (node, tally and
\* attempted set stay as the event left them), and the remaining events of
\* the same webhook batch are not processed.
C20_FailureKeepsEntry ==
    [][\A r \in RequestIds :
          /\ Fails(r) =>
                /\ chatflow' = chatflow /\ tallies' = tallies /\ applied' = applied
                /\ tasks'[r].status = "failed" /\ tasks'[r].i = tasks[r].i
          /\ tasks[r].status = "failed" =>
                /\ tasks'[r] = tasks[r]
                /\ \A k \in DOMAIN applied' : applied'[k].rid = r => k \in DOMAIN applied]_vars

\* C20 happens: the delivery fails for the first of two events of request
\* r2, an answer that the Store node of user u1 counted; the user is at the
\* next node with the answer in the tally, and the second event of the
\* request was not handled
C20_Witness ==
    /\ tasks["r2"].status = "failed" /\ tasks["r2"].i = 1
    /\ Len(tasks["r2"].batch) = 2
    /\ tasks["r2"].batch[1] = Event("u1", "tok", "postback", QA("L", "A"))
    /\ "u1" \in DOMAIN chatflow /\ chatflow["u1"].cls = "QA"
    /\ Count(TallyOf("u1"), "A") = 1
    /\ \A k \in DOMAIN applied : applied[k] # [rid |-> "r2", i |-> 2]

\* the messages some node factory of the graph was configured with
Configured(msgs) == \E k \in DOMAIN makers : makers[k].messages = msgs

\* the last event made the handler call get_messages of the node the
\* directory holds for its user
Asked == LookedUp /\ last.outcome = "replied" /\ LastUser \in DOMAIN chatflow

\* C21: a self-loop of a QA or Store node replaces the messages of that
\* node instance: after a rejected input get_messages of the node, on the
\* rejected event and on any later follow event, returns exactly one
\* message, the fixed text of the most recent rejection, and never the
\* configured messages, until the node advances to a new instance.
C21_SelfLoopReplacesMessages ==
    /\ \A u \in DOMAIN chatflow :
          IF hist[u].rejected # None
          THEN /\ chatflow[u].cls \in {"QA", "Store"}
               /\ get_messages(chatflow[u], tallies, URL).messages =
                     << make_text_message(hist[u].rejected) >>
          ELSE Configured(chatflow[u].messages)
    /\ (Asked /\ hist[LastUser].rejected # None) =>
          last.messages = << make_text_message(hist[LastUser].rejected) >>

\* C21 happens: a follow event reaches a QA node whose last rejection, after
\* two wrong answers, was a repeated answer, and gets the already-answered
\* text alone
C21_Witness ==
    /\ Asked /\ last.ev.kind = "follow" /\ LastUser = "u1"
    /\ chatflow["u1"].cls = "QA" /\ Cardinality(chatflow["u1"].attempt) = 2
    /\ hist["u1"].rejected = DUPLICATE_ANSWER
    /\ last.messages = << make_text_message(DUPLICATE_ANSWER) >>

====
